---------------------------- MODULE Spec2Model ----------------------------
(***************************************************************************)
(* One run of _OnStaleMd5 of build/android/gyp/lint.py: narrowing of the   *)
(* source list, staging of the sources into temporary directories, the     *)
(* config pre-pass, the invocation of the lint tool and the handling of    *)
(* its exit code and of the result file.                                   *)
(*                                                                         *)
(* A path is a sequence of components; a file content is a sequence of     *)
(* tokens (a path inside a content is the run of its components).          *)
(***************************************************************************)
EXTENDS Integers, Sequences, FiniteSets, TLC

VARIABLES
    args,                   \* the parameters of _OnStaleMd5 (never assigned)
    changes,                \* the `changes` parameter
    pc,                     \* position of the run in _OnStaleMd5
    sources,                \* the local `sources` (narrowed at line 84)
    temp_dir,               \* TRUE while the TempDir tree exists on disk
    links,                  \* disk: the staging directories, in creation order
    src_dirs,               \* the list `src_dirs` (paths of the directories)
    placed,                 \* placed[k]: index of the directory chosen for sources[k]
    cmd,                    \* the list `cmd`
    config_file,            \* disk: the file at config_path
    processed_config_file,  \* disk: the file at processed_config_path
    result_file,            \* disk: the file at result_path
    exc,                    \* the exception being handled or propagated
    num_issues,             \* the local `num_issues` (-1 while unbound)
    out,                    \* what was printed, in order
    trace                   \* the calls made so far, in order

vars == <<args, changes, pc, sources, temp_dir, links, src_dirs, placed, cmd,
          config_file, processed_config_file, result_file, exc, num_issues,
          out, trace>>

----------------------------------------------------------------------------
(* Bounds of the model *)

MaxSources == 3
MaxRunSources == 2
MaxConfigLen == 3

----------------------------------------------------------------------------
(* Paths *)

None == <<>>

\* an absolute path starts with the component "/"
SrcRoot == <<"/", "r">>
Cwd == <<"/", "r", "out">>
TempPath == <<"/", "tmp", "t">>

RECURSIVE NormPath(_, _)
NormPath(done, rest) ==
    IF rest = <<>> THEN done
    ELSE IF Head(rest) = "." THEN NormPath(done, Tail(rest))
    ELSE IF Head(rest) = ".." THEN
        NormPath(IF Len(done) <= 1 THEN done ELSE SubSeq(done, 1, Len(done) - 1),
                 Tail(rest))
    ELSE NormPath(Append(done, Head(rest)), Tail(rest))

AbsPath(path) ==
    IF path # <<>> /\ Head(path) = "/" THEN NormPath(<<>>, path)
    ELSE NormPath(<<>>, Cwd \o path)

RECURSIVE CommonLen(_, _)
CommonLen(p, q) ==
    IF p = <<>> \/ q = <<>> \/ Head(p) # Head(q) THEN 0
    ELSE 1 + CommonLen(Tail(p), Tail(q))

RelPath(p, start) ==
    LET n == CommonLen(p, start)
        ups == [k \in 1..(Len(start) - n) |-> ".."]
        rel == ups \o SubSeq(p, n + 1, Len(p))
    IN  IF rel = <<>> THEN <<".">> ELSE rel

RelativizePath(path) == RelPath(AbsPath(path), SrcRoot)

BaseName(path) == IF path = <<>> THEN "" ELSE path[Len(path)]

PathInDir(d, src) == Append(d, BaseName(src))

----------------------------------------------------------------------------
(* File contents *)

PRODUCT_DIR == <<"PRODUCT_DIR">>

IsPrefix(p, s) == Len(p) <= Len(s) /\ SubSeq(s, 1, Len(p)) = p

RECURSIVE Replace(_, _, _)
Replace(s, old, new) ==
    IF s = <<>> THEN <<>>
    ELSE IF IsPrefix(old, s)
         THEN new \o Replace(SubSeq(s, Len(old) + 1, Len(s)), old, new)
         ELSE <<Head(s)>> \o Replace(Tail(s), old, new)

RECURSIVE GetSize(_)
GetSize(s) == IF s = <<>> THEN 0 ELSE Len(Head(s)) + GetSize(Tail(s))

NoFile == [exists |-> FALSE, content |-> <<>>, mtime |-> 0]
File(c, t) == [exists |-> TRUE, content |-> c, mtime |-> t]


----------------------------------------------------------------------------
(* The report: "<issues>" issue* "</issues>", an issue being               *)
(* "<issue" attribute-tokens "/>"; "file=" opens its location element's    *)
(* file attribute and "line=" stands for a non-empty line attribute.       *)

Markup == {"<issues>", "</issues>", "<issue", "/>"}

RECURSIVE ScanIssues(_, _, _, _)
\* inside: an "<issue" is open; cur: its tokens so far; acc: the issues closed so far
ScanIssues(s, inside, cur, acc) ==
    IF s = <<>> THEN [ok |-> ~inside, issues |-> acc]
    ELSE IF inside THEN
        IF Head(s) = "/>" THEN ScanIssues(Tail(s), FALSE, <<>>, Append(acc, cur))
        ELSE IF Head(s) \in Markup THEN [ok |-> FALSE, issues |-> acc]
        ELSE ScanIssues(Tail(s), TRUE, Append(cur, Head(s)), acc)
    ELSE IF Head(s) = "<issue" THEN ScanIssues(Tail(s), TRUE, <<>>, acc)
    ELSE [ok |-> FALSE, issues |-> acc]

\* minidom.parse(result_path) followed by getElementsByTagName('issue')
MinidomParse(content) ==
    IF Len(content) >= 2 /\ content[1] = "<issues>"
                         /\ content[Len(content)] = "</issues>"
    THEN ScanIssues(SubSeq(content, 2, Len(content) - 1), FALSE, <<>>, <<>>)
    ELSE [ok |-> FALSE, issues |-> <<>>]

HasToken(s, t) == \E k \in 1..Len(s) : s[k] = t

Printed(stream, kind) == [stream |-> stream, kind |-> kind]

RECURSIVE RenderIssues(_, _)
\* the loop of lines 62-77: the lines printed, and whether an issue without
\* a location element ended it (IndexError at line 65)
RenderIssues(issues, acc) ==
    IF issues = <<>> THEN [ok |-> TRUE, printed |-> acc]
    ELSE IF ~HasToken(Head(issues), "file=") THEN [ok |-> FALSE, printed |-> acc]
    ELSE RenderIssues(Tail(issues),
            Append(acc, Printed("stderr",
                IF HasToken(Head(issues), "line=") THEN "issue_with_line"
                                                    ELSE "issue_without_line")))

\* _ParseAndShowResultFile: ok = it returned, n = its result, printed = its output
ParseAndShowResultFile(content, silent) ==
    LET dom == MinidomParse(content)
        shown == RenderIssues(dom.issues, <<Printed("stderr", "blank")>>)
    IN  IF ~dom.ok
        THEN [ok |-> FALSE, error |-> "ExpatError", n |-> -1, printed |-> <<>>]
        ELSE IF silent
        THEN [ok |-> TRUE, error |-> "none", n |-> Len(dom.issues), printed |-> <<>>]
        ELSE [ok |-> shown.ok,
              error |-> IF shown.ok THEN "none" ELSE "IndexError",
              n |-> IF shown.ok THEN Len(dom.issues) ELSE -1,
              printed |-> shown.printed]

\* mutant: the dump is printed in silent mode too
DumpUnparseableAlways(silent) ==
    <<Printed("stdout", "unparseable"), Printed("stdout", "contents_header"),
      Printed("stdout", "contents")>>

\* the dump of an unparseable report, lines 160-164 and 175-179
DumpUnparseable(silent) ==
    IF silent THEN <<>>
    ELSE <<Printed("stdout", "unparseable"), Printed("stdout", "contents_header"),
           Printed("stdout", "contents")>>

\* traceback.print_exc()
PrintExc == <<Printed("stderr", "traceback")>>

----------------------------------------------------------------------------
(* The inputs of a run *)

SourcePaths == {<<"a", "x.java">>, <<"b", "x.java">>, <<"a", "y.java">>}

LintPath == <<"..", "sdk", "lint">>
ConfigPath == <<"..", "lint", "suppressions.xml">>
ProcessedConfigPath == <<"gen", "suppressions.xml">>
ManifestPath == <<"..", "app", "AndroidManifest.xml">>
ResultPath == <<"lint_result.xml">>
ProductDir == <<".">>
JarPath == <<"lib.jar">>
CacheDir == <<"cache">>
ResourceDir == <<"..", "app", "res">>
RemovedPath == <<"a", "gone.java">>

SeqsUpTo(S, n) == UNION {[1..k -> S] : k \in 0..n}

\* what the tool may leave at result_path
EmptyReport == <<>>
TruncatedReport == <<"<issues>">>
NoIssuesReport == <<"<issues>", "</issues>">>
OneIssueReport ==
    <<"<issues>", "<issue", "file=", "out", "gen", "F.java", "line=", "/>",
      "</issues>">>
TwoIssueReport ==
    <<"<issues>", "<issue", "file=", "out", "gen", "F.java", "line=", "/>",
      "<issue", "file=", "PRODUCT_DIR", "G.class", "/>", "</issues>">>
BrokenReport == <<"<issues>", "<issue", "file=", "out", "gen">>
NoLocationReport == <<"<issues>", "<issue", "/>", "</issues>">>

ToolReports ==
    {EmptyReport, TruncatedReport, NoIssuesReport, OneIssueReport, TwoIssueReport,
     BrokenReport, NoLocationReport}

ConfigContents == {<<"<lint>", "PRODUCT_DIR", "gen", "</lint>">>}

\* mtimes: the config is written at 1, a processed config left by an earlier
\* run at 0 or 2, and this run writes at Now
ConfigTime == 1
OldTimes == {0, 2}
Now == 3

\* the option parameters, as main passes them (lines 253-256: the two config
\* paths are given together or not at all; --cache-dir is required)
Options(resource, strict, quiet, config, jar, manifest) ==
    [lint_path |-> LintPath,
     config_path |-> IF config THEN ConfigPath ELSE None,
     processed_config_path |-> IF config THEN ProcessedConfigPath ELSE None,
     manifest_path |-> IF manifest THEN ManifestPath ELSE None,
     result_path |-> ResultPath,
     product_dir |-> ProductDir,
     jar_path |-> IF jar THEN JarPath ELSE None,
     cache_dir |-> CacheDir,
     resource_dir |-> IF resource THEN ResourceDir ELSE None,
     can_fail_build |-> strict,
     silent |-> quiet]

AllOptions ==
    {Options(r, s, q, c, j, m) : r \in BOOLEAN, s \in BOOLEAN, q \in BOOLEAN,
                                 c \in BOOLEAN, j \in BOOLEAN, m \in BOOLEAN}

\* every mode of the run, with a manifest and no jar
RunOptions ==
    {Options(r, s, q, c, FALSE, TRUE) : r \in BOOLEAN, s \in BOOLEAN,
                                        q \in BOOLEAN, c \in BOOLEAN}

\* every shape of the command, in non-strict silent mode
CmdOptions == {o \in AllOptions : ~o.can_fail_build /\ o.silent}

\* --product-dir as the current directory or as a directory below it
ProductDirs == {<<".">>, <<"out">>}

\* with and without the config paths, for each product directory
ConfigOptions ==
    {[Options(FALSE, s, FALSE, c, FALSE, FALSE) EXCEPT !.product_dir = d] :
        s \in BOOLEAN, c \in BOOLEAN, d \in ProductDirs}

\* the config contents of up to MaxConfigLen tokens
ConfigTokens == {"PRODUCT_DIR", "out", "x"}
BoundedConfigs == SeqsUpTo(ConfigTokens, MaxConfigLen)

StagingOptions ==
    {Options(r, s, FALSE, FALSE, FALSE, TRUE) : r \in BOOLEAN, s \in BOOLEAN}

Changes(a, m, r) == [added |-> a, modified |-> m, removed |-> r]

AllChanges ==
    {Changes(a, m, r) : a \in SUBSET {<<"a", "y.java">>},
                        m \in SUBSET {<<"a", "x.java">>, LintPath},
                        r \in SUBSET {RemovedPath}}

RunChanges ==
    {Changes({}, {<<"a", "x.java">>, LintPath}, {}),
     Changes({<<"a", "y.java">>}, {}, {RemovedPath})}

\* md5_check.Changes.AddedOrModifiedOnly()
AddedOrModifiedOnly(c) == c.removed = {}

\* md5_check.Changes.IterChangedPaths()
IterChangedPaths(c) == c.added \cup c.modified

\* build_utils.IsTimeStale(output, inputs), for one input
IsTimeStale(output, input) == ~output.exists \/ output.mtime < input.mtime

InitWith(sourceLists, changeSets, options, configs) ==
    /\ args \in {[sources |-> l, opts |-> o] : l \in sourceLists, o \in options}
    /\ changes \in changeSets
    /\ pc = "start"
    /\ sources = args.sources
    /\ temp_dir = FALSE
    /\ links = <<>>
    /\ src_dirs = <<>>
    /\ placed = <<>>
    /\ cmd = <<>>
    /\ config_file \in
          IF args.opts.config_path = None THEN {NoFile}
          ELSE {File(c, ConfigTime) : c \in configs}
    /\ processed_config_file \in
          IF args.opts.config_path = None THEN {NoFile}
          ELSE {NoFile} \cup {File(<<"old">>, t) : t \in OldTimes}
    /\ result_file \in {NoFile, File(OneIssueReport, 0)}
    /\ exc = "none"
    /\ num_issues = -1
    /\ out = <<>>
    /\ trace = <<>>

InitFrom(sourceLists, changeSets, options) ==
    InitWith(sourceLists, changeSets, options, ConfigContents)

Init == InitFrom(SeqsUpTo(SourcePaths, MaxRunSources), RunChanges, RunOptions)

InitCmd ==
    InitFrom(SeqsUpTo(SourcePaths, MaxSources),
             {Changes({}, {}, {RemovedPath})}, CmdOptions)

InitConfig ==
    InitWith({<<<<"a", "x.java">>>>}, {Changes({}, {}, {RemovedPath})},
             ConfigOptions, BoundedConfigs)

InitStaging == InitFrom(SeqsUpTo(SourcePaths, MaxSources), AllChanges, StagingOptions)

----------------------------------------------------------------------------
(* The run *)

\* build_utils.TempDir: the tree is removed when the with block is left
TempDirExit ==
    /\ temp_dir' = FALSE
    /\ links' = <<>>

\* mutant: the tree is removed on a return only
LeaveLeakingOnRaise(how, e) ==
    /\ pc' = how
    /\ exc' = e
    /\ IF how = "returned" THEN TempDirExit ELSE UNCHANGED <<temp_dir, links>>

\* leaving the with block of line 86, by a return or by an exception
Leave(how, e) ==
    /\ pc' = how
    /\ exc' = e
    /\ TempDirExit

Running == pc \notin {"returned", "raised"}

\* mutant: the resource directory is not looked at
NarrowIgnoringResources(resource_dir, c, srcs) ==
    IF AddedOrModifiedOnly(c)
    THEN SelectSeq(srcs, LAMBDA s : s \in IterChangedPaths(c))
    ELSE srcs

\* mutant: a source is kept when a changed path has its base name
NarrowByBaseName(resource_dir, c, srcs) ==
    IF resource_dir = None /\ AddedOrModifiedOnly(c)
    THEN SelectSeq(srcs, LAMBDA s :
            \E q \in IterChangedPaths(c) : BaseName(q) = BaseName(s))
    ELSE srcs

\* lines 82-84
Narrow(resource_dir, c, srcs) ==
    IF resource_dir = None /\ AddedOrModifiedOnly(c)
    THEN SelectSeq(srcs, LAMBDA s : s \in IterChangedPaths(c))
    ELSE srcs

NarrowSources ==
    /\ pc = "start"
    /\ sources' = Narrow(args.opts.resource_dir, changes, sources)
    /\ pc' = "with"
    /\ UNCHANGED <<args, changes, temp_dir, links, src_dirs, placed, cmd,
                   config_file, processed_config_file, result_file, exc,
                   num_issues, out, trace>>

\* line 86: build_utils.TempDir() creates the directory
EnterTempDir ==
    /\ pc = "with"
    /\ temp_dir' = TRUE
    /\ pc' = "config"
    /\ trace' = Append(trace, "TempDir")
    /\ UNCHANGED <<args, changes, sources, links, src_dirs, placed, cmd,
                   config_file, processed_config_file, result_file, exc,
                   num_issues, out>>

\* mutant: the staleness of the processed config is not looked at
ProcessedConfigAlways(opts, config, processed) ==
    IF opts.config_path = None \/ opts.processed_config_path = None THEN processed
    ELSE File(Replace(config.content, PRODUCT_DIR, RelativizePath(opts.product_dir)),
              Now)

\* lines 36-47: what _ProcessConfigFile leaves at processed_config_path
ProcessedConfig(opts, config, processed) ==
    IF opts.config_path = None \/ opts.processed_config_path = None THEN processed
    ELSE IF ~IsTimeStale(processed, config) THEN processed
    ELSE File(Replace(config.content, PRODUCT_DIR, RelativizePath(opts.product_dir)),
              Now)

\* line 87
ProcessConfigFile ==
    /\ pc = "config"
    /\ processed_config_file' =
          ProcessedConfig(args.opts, config_file, processed_config_file)
    /\ trace' = Append(trace, "_ProcessConfigFile")
    /\ pc' = "cmd"
    /\ UNCHANGED <<args, changes, sources, temp_dir, links, src_dirs, placed, cmd,
                   config_file, result_file, exc, num_issues, out>>

Flag(f) == <<f>>

\* lines 89-98
BaseCmd(opts) ==
    <<RelativizePath(opts.lint_path), Flag("-Werror"), Flag("--exitcode"),
      Flag("--showall"), Flag("--xml"), RelativizePath(opts.result_path)>>
    \o (IF opts.jar_path # None
        THEN <<Flag("--classpath"), RelativizePath(opts.jar_path)>> ELSE <<>>)
    \o (IF opts.processed_config_path # None
        THEN <<Flag("--config"), RelativizePath(opts.processed_config_path)>>
        ELSE <<>>)
    \o (IF opts.resource_dir # None
        THEN <<Flag("--resources"), RelativizePath(opts.resource_dir)>> ELSE <<>>)

\* lines 89-105
BuildCmd ==
    /\ pc = "cmd"
    /\ cmd' = BaseCmd(args.opts)
    /\ src_dirs' = <<>>
    /\ pc' = "stage"
    /\ UNCHANGED <<args, changes, sources, temp_dir, links, placed,
                   config_file, processed_config_file, result_file, exc,
                   num_issues, out, trace>>

\* the declared inputs exist on disk (main hands them to the md5 check)
SourceFiles == {AbsPath(p) : p \in SourcePaths}

\* os.path.exists(PathInDir(d, src)), d holding `entries`: follows the link
OsPathExists(entries, name) ==
    \E e \in entries : e.name = name /\ e.target \in SourceFiles

Min(S) == CHOOSE x \in S : \A y \in S : x <= y

\* mutant: a directory is free when it does not hold a link to the same source
ChooseDirByTarget(dirs, src) ==
    LET free == {k \in 1..Len(dirs) : \A e \in dirs[k] : e.target # AbsPath(src)}
    IN  IF free = {} THEN 0 ELSE Min(free)

\* mutant: the last free directory is taken instead of the first
ChooseDirLast(dirs, src) ==
    LET free == {k \in 1..Len(dirs) : ~OsPathExists(dirs[k], BaseName(src))}
    IN  IF free = {} THEN 0 ELSE CHOOSE x \in free : \A y \in free : y <= x

\* lines 117-121: the index of the directory chosen among the existing ones,
\* 0 when src_dir stays None
ChooseDir(dirs, src) ==
    LET free == {k \in 1..Len(dirs) : ~OsPathExists(dirs[k], BaseName(src))}
    IN  IF free = {} THEN 0 ELSE Min(free)

\* mutant: the new directory is not made a source root of the command
WithSourceDirDropped(c, new_dir) == c

\* line 110
WithSourceDir(c, new_dir) == c \o <<Flag("--sources"), RelativizePath(new_dir)>>

\* mutant: the loop body is never entered
StagingDoneAtOnce(done, list) == TRUE

\* line 116: the for loop has gone through the list
StagingDone(done, list) == Len(done) = Len(list)

\* lines 116-124, one iteration: the values it computes
Staging ==
    LET src == sources[Len(placed) + 1]
        k == ChooseDir(links, src)
        new_dir == Append(TempPath, ToString(Len(src_dirs)))
        entry == [name |-> BaseName(src), target |-> AbsPath(src)]
    IN  [isNew |-> k = 0,
         index |-> IF k = 0 THEN Len(src_dirs) + 1 ELSE k,
         dirs |-> IF k = 0 THEN Append(src_dirs, new_dir) ELSE src_dirs,
         disk |-> IF k = 0 THEN Append(links, {}) ELSE links,
         cmd |-> IF k = 0 THEN WithSourceDir(cmd, new_dir) ELSE cmd,
         entry |-> entry,
         taken |-> IF k = 0 THEN FALSE
                   ELSE \E e \in links[k] : e.name = entry.name]

\* lines 116-124: one source is linked into its directory
StageSource ==
    /\ pc = "stage"
    /\ ~StagingDone(placed, sources)
    /\ ~Staging.taken
    /\ src_dirs' = Staging.dirs
    /\ cmd' = Staging.cmd
    /\ links' = [Staging.disk EXCEPT ![Staging.index] = @ \cup {Staging.entry}]
    /\ placed' = Append(placed, Staging.index)
    /\ trace' = Append(trace, "symlink")
    /\ UNCHANGED <<args, changes, pc, sources, temp_dir, config_file,
                   processed_config_file, result_file, exc, num_issues, out>>

\* line 108: os.mkdir raises
StageMkdirFails ==
    /\ pc = "stage"
    /\ ~StagingDone(placed, sources)
    /\ Staging.isNew
    /\ Leave("raised", "OSError")
    /\ UNCHANGED <<args, changes, sources, src_dirs, placed, cmd, config_file,
                   processed_config_file, result_file, num_issues, out, trace>>

\* line 124: os.symlink raises, because the name exists or for any other reason
StageSymlinkFails ==
    /\ pc = "stage"
    /\ ~StagingDone(placed, sources)
    /\ src_dirs' = Staging.dirs
    /\ cmd' = Staging.cmd
    /\ Leave("raised", IF Staging.taken THEN "OSError:EEXIST" ELSE "OSError")
    /\ UNCHANGED <<args, changes, sources, placed, config_file,
                   processed_config_file, result_file, num_issues, out, trace>>

\* mutant: an old result file is left in place
RemoveStaleSkipped(file) == file

\* lines 129-130
RemoveStale(file) == IF file.exists THEN NoFile ELSE file

\* lines 126-138: the manifest argument, and the removal of an old result file
PrepareInvocation ==
    /\ pc = "stage"
    /\ StagingDone(placed, sources)
    /\ cmd' = IF args.opts.manifest_path # None
              THEN Append(cmd, RelativizePath(Append(args.opts.manifest_path, "..")))
              ELSE cmd
    /\ result_file' = RemoveStale(result_file)
    /\ trace' = IF result_file.exists THEN Append(trace, "os.remove") ELSE trace
    /\ pc' = "invoke"
    /\ UNCHANGED <<args, changes, sources, temp_dir, links, src_dirs, placed,
                   config_file, processed_config_file, exc, num_issues, out>>

\* what the tool leaves at result_path: nothing, or one of the reports
ToolWrites == {NoFile} \cup {File(r, Now) : r \in ToolReports}

AfterTool(w) == IF w.exists THEN w ELSE result_file

\* lines 140-142: the tool exits with code 0; the with block is left
ToolSucceeds ==
    /\ pc = "invoke"
    /\ \E w \in ToolWrites : result_file' = AfterTool(w)
    /\ trace' = Append(trace, "CheckOutput")
    /\ Leave("returned", "none")
    /\ UNCHANGED <<args, changes, sources, src_dirs, placed, cmd, config_file,
                   processed_config_file, num_issues, out>>

\* lines 140-143: the tool exits nonzero, CheckOutput raises CalledProcessError
ToolFails ==
    /\ pc = "invoke"
    /\ \E w \in ToolWrites : result_file' = AfterTool(w)
    /\ trace' = Append(trace, "CheckOutput")
    /\ exc' = "CalledProcessError"
    /\ pc' = "except"
    /\ UNCHANGED <<args, changes, sources, temp_dir, links, src_dirs, placed, cmd,
                   config_file, processed_config_file, num_issues, out>>

\* mutant: the missing result file is not noticed
ResultMissingNever(file) == FALSE

\* line 145
ResultMissing(file) == ~file.exists

\* lines 145-146
UsageError ==
    /\ pc = "except"
    /\ ResultMissing(result_file)
    /\ Leave("raised", exc)
    /\ UNCHANGED <<args, changes, sources, src_dirs, placed, cmd, config_file,
                   processed_config_file, result_file, num_issues, out, trace>>

\* mutant: only an empty file counts
NearEmptyZero(file) == GetSize(file.content) < 1

\* line 149
NearEmpty(file) == GetSize(file.content) < 10

\* mutant: the malfunction is fatal in every mode
MalfunctionRaisesAlways(opts) == TRUE

\* line 150
MalfunctionRaises(opts) == opts.can_fail_build

\* mutant: a failed parse never ends the run early
ReturnsAfterFailedParseNever(opts) == FALSE

\* line 165
ReturnsAfterFailedParse(opts) == ~opts.can_fail_build

\* mutant: the issues are fatal in every mode
RaisesOnIssuesAlways(opts) == TRUE

\* line 197
RaisesOnIssues(opts) == opts.can_fail_build

\* lines 149-154
ToolMalfunction ==
    /\ pc = "except"
    /\ ~ResultMissing(result_file)
    /\ NearEmpty(result_file)
    /\ IF MalfunctionRaises(args.opts)
       THEN Leave("raised", exc) /\ out' = out
       ELSE /\ out' = IF ~args.opts.silent THEN out \o PrintExc ELSE out
            /\ Leave("returned", "none")
    /\ UNCHANGED <<args, changes, sources, src_dirs, placed, cmd, config_file,
                   processed_config_file, result_file, num_issues, trace>>

\* lines 156-166: the first parse of the report
FirstParse ==
    /\ pc = "except"
    /\ ~ResultMissing(result_file)
    /\ ~NearEmpty(result_file)
    /\ LET r == ParseAndShowResultFile(result_file.content, args.opts.silent)
       IN  /\ trace' = Append(trace, "_ParseAndShowResultFile")
           /\ IF r.ok
              THEN /\ num_issues' = r.n
                   /\ out' = out \o r.printed
                   /\ pc' = "traceback"
                   /\ UNCHANGED <<exc, temp_dir, links>>
              ELSE /\ out' = out \o r.printed \o DumpUnparseable(args.opts.silent)
                   /\ num_issues' = num_issues
                   /\ IF ReturnsAfterFailedParse(args.opts)
                      THEN Leave("returned", "none")
                      ELSE /\ pc' = "traceback"
                           /\ exc' = r.error
                           /\ UNCHANGED <<temp_dir, links>>
    /\ UNCHANGED <<args, changes, sources, src_dirs, placed, cmd, config_file,
                   processed_config_file, result_file>>

\* lines 168-169
PrintTraceback ==
    /\ pc = "traceback"
    /\ out' = IF args.opts.can_fail_build /\ ~args.opts.silent
              THEN out \o PrintExc ELSE out
    /\ pc' = "parse"
    /\ UNCHANGED <<args, changes, sources, temp_dir, links, src_dirs, placed, cmd,
                   config_file, processed_config_file, result_file, exc,
                   num_issues, trace>>

\* mutant: the handler of line 174 dumps the report and does not raise
SecondParseSwallows ==
    /\ pc = "parse"
    /\ LET r == ParseAndShowResultFile(result_file.content, args.opts.silent)
       IN  /\ trace' = Append(trace, "_ParseAndShowResultFile")
           /\ num_issues' = IF r.ok THEN r.n ELSE num_issues
           /\ out' = out \o r.printed \o
                     (IF r.ok THEN <<>> ELSE DumpUnparseable(args.opts.silent))
           /\ pc' = "normalize"
    /\ UNCHANGED <<args, changes, sources, temp_dir, links, src_dirs, placed, cmd,
                   config_file, processed_config_file, result_file, exc>>

\* lines 171-180: the second parse of the report
SecondParse ==
    /\ pc = "parse"
    /\ LET r == ParseAndShowResultFile(result_file.content, args.opts.silent)
       IN  /\ trace' = Append(trace, "_ParseAndShowResultFile")
           /\ IF r.ok
              THEN /\ num_issues' = r.n
                   /\ out' = out \o r.printed
                   /\ pc' = "normalize"
                   /\ UNCHANGED <<exc, temp_dir, links>>
              ELSE /\ out' = out \o r.printed \o DumpUnparseable(args.opts.silent)
                   /\ num_issues' = num_issues
                   /\ Leave("raised", r.error)
    /\ UNCHANGED <<args, changes, sources, src_dirs, placed, cmd, config_file,
                   processed_config_file, result_file>>

\* mutant: the two arguments of replace are exchanged
NormalizedResultSwapped(opts, file) ==
    File(Replace(file.content, PRODUCT_DIR, RelativizePath(opts.product_dir)), Now)

\* mutant: the file is written back as it was read
NormalizedResultUnchanged(opts, file) == File(file.content, Now)

\* lines 49-55: what _ProcessResultFile leaves at result_path
NormalizedResult(opts, file) ==
    File(Replace(file.content, RelativizePath(opts.product_dir), PRODUCT_DIR), Now)

\* line 182
ProcessResultFile ==
    /\ pc = "normalize"
    /\ result_file' = NormalizedResult(args.opts, result_file)
    /\ trace' = Append(trace, "_ProcessResultFile")
    /\ pc' = "report"
    /\ UNCHANGED <<args, changes, sources, temp_dir, links, src_dirs, placed, cmd,
                   config_file, processed_config_file, exc, num_issues, out>>

\* lines 183-198
ReportIssues ==
    /\ pc = "report"
    /\ out' = IF ~args.opts.silent THEN Append(out, Printed("stderr", "msg")) ELSE out
    /\ IF RaisesOnIssues(args.opts)
       THEN Leave("raised", "Lint failed.")
       ELSE Leave("returned", "none")
    /\ UNCHANGED <<args, changes, sources, src_dirs, placed, cmd, config_file,
                   processed_config_file, result_file, num_issues, trace>>

Next ==
    \/ NarrowSources
    \/ EnterTempDir
    \/ ProcessConfigFile
    \/ BuildCmd
    \/ StageSource
    \/ StageMkdirFails
    \/ StageSymlinkFails
    \/ PrepareInvocation
    \/ ToolSucceeds
    \/ ToolFails
    \/ UsageError
    \/ ToolMalfunction
    \/ FirstParse
    \/ PrintTraceback
    \/ SecondParse
    \/ ProcessResultFile
    \/ ReportIssues

Spec == Init /\ [][Next]_vars

SpecStaging == InitStaging /\ [][Next]_vars

SpecCmd == InitCmd /\ [][Next]_vars

SpecConfig == InitConfig /\ [][Next]_vars

----------------------------------------------------------------------------
(* The claims *)

RECURSIVE LinkCount(_)
LinkCount(dirs) ==
    IF dirs = <<>> THEN 0 ELSE Cardinality(Head(dirs)) + LinkCount(Tail(dirs))

LinkOf(src) == [name |-> BaseName(src), target |-> AbsPath(src)]

Invoked == HasToken(trace, "CheckOutput")

\* C1: while the staging tree exists, no staging directory holds two links of
\* one base name, the k-th source processed has its link in the directory
\* chosen for it, there are as many links as sources processed (each is in one
\* directory only), and the loop never fails on a name that is already taken.
C1_StagingInvariant ==
    /\ \A k \in 1..Len(links) :
          \A e1, e2 \in links[k] : e1.name = e2.name => e1 = e2
    /\ exc # "OSError:EEXIST"
    /\ (temp_dir /\ Running) =>
          /\ \A k \in 1..Len(placed) :
                /\ placed[k] \in 1..Len(links)
                /\ LinkOf(sources[k]) \in links[placed[k]]
          /\ LinkCount(links) = Len(placed)
          /\ Len(links) = Len(src_dirs)

\* C1 witness: a list that repeats a path and then its base name under another
\* directory is staged into three directories.
C1_Witness ==
    /\ temp_dir
    /\ Len(placed) = 3
    /\ sources[1] = sources[2]
    /\ sources[3] # sources[1]
    /\ BaseName(sources[3]) = BaseName(sources[1])
    /\ Len(links) = 3

\* C2, as stated: a run that invoked the tool fails only under can_fail_build.
C2_Original ==
    (pc = "raised" /\ Invoked) => args.opts.can_fail_build

\* C2, amended: a run that invoked the tool fails only when the tool exited
\* nonzero and left no result file (in any mode), or under can_fail_build with
\* issues found, a near-empty result file or an unparseable report.
C2_ExitContract ==
    (pc = "raised" /\ Invoked) =>
        \/ exc = "CalledProcessError" /\ ~result_file.exists
        \/ /\ args.opts.can_fail_build
           /\ result_file.exists
           /\ \/ exc = "Lint failed." /\ num_issues >= 0
              \/ exc = "CalledProcessError" /\ GetSize(result_file.content) < 10
              \/ /\ exc \in {"ExpatError", "IndexError"}
                 /\ GetSize(result_file.content) >= 10

\* C2 witness: a non-strict run in which the tool failed on a near-empty
\* result file has returned.
C2_Witness ==
    /\ pc = "returned"
    /\ ~args.opts.can_fail_build
    /\ result_file.exists
    /\ GetSize(result_file.content) < 10
    /\ out = PrintExc

\* C3: when the tool's error is caught and no result file exists, the next
\* step propagates that error, in every mode, without a parse, a
\* normalization or any output.
C3_UsageError ==
    [][(pc = "except" /\ ~result_file.exists) =>
          /\ pc' = "raised"
          /\ exc' = "CalledProcessError"
          /\ trace' = trace
          /\ out' = out
          /\ result_file' = result_file]_vars

\* C3 witness: a non-strict silent run has ended with the tool's error and no
\* result file.
C3_Witness ==
    /\ pc = "raised"
    /\ exc = "CalledProcessError"
    /\ ~result_file.exists
    /\ ~args.opts.can_fail_build
    /\ args.opts.silent

\* C4: when the tool's error is caught and the result file has fewer than 10
\* bytes, the next step ends the run without a parse and without an issue
\* count, leaving the file as it is: the error is re-raised under
\* can_fail_build, else the run returns, having printed the traceback unless
\* silent.
C4_ToolMalfunction ==
    [][(pc = "except" /\ result_file.exists /\ GetSize(result_file.content) < 10) =>
          /\ trace' = trace
          /\ num_issues' = num_issues
          /\ result_file' = result_file
          /\ IF args.opts.can_fail_build
             THEN pc' = "raised" /\ exc' = "CalledProcessError" /\ out' = out
             ELSE /\ pc' = "returned"
                  /\ out' = IF args.opts.silent THEN out ELSE out \o PrintExc]_vars

\* C4 witness: a strict run has ended with the tool's error on a truncated
\* report of 8 bytes.
C4_Witness ==
    /\ pc = "raised"
    /\ exc = "CalledProcessError"
    /\ result_file.exists
    /\ GetSize(result_file.content) = 8
    /\ ~HasToken(trace, "_ParseAndShowResultFile")

Ended == pc \in {"returned", "raised"}

Parsed == HasToken(trace, "_ParseAndShowResultFile")

ParseFails == ~ParseAndShowResultFile(result_file.content, args.opts.silent).ok

\* the handler is entered with a result file of at least 10 bytes
AtReport ==
    pc = "except" /\ result_file.exists /\ GetSize(result_file.content) >= 10

\* C5, as stated: in non-strict mode a report of at least 10 bytes that fails
\* to parse is dumped and the run ends with an exception.
C5_Original ==
    [][(AtReport /\ ParseFails /\ ~args.opts.can_fail_build) =>
          /\ pc' = "raised"
          /\ HasToken(out', Printed("stdout", "contents"))]_vars

\* C5, amended: in non-strict mode a report of at least 10 bytes that fails to
\* parse makes the run return normally in the same step, the staging tree
\* removed and the result file untouched; the report is dumped to standard
\* output unless silent (after the issues rendered before the failure).
C5_ParseErrorNonStrict ==
    [][(AtReport /\ ParseFails /\ ~args.opts.can_fail_build) =>
          /\ pc' = "returned"
          /\ exc' = "none"
          /\ ~temp_dir'
          /\ result_file' = result_file
          /\ out' = out
                \o ParseAndShowResultFile(result_file.content, args.opts.silent).printed
                \o (IF args.opts.silent THEN <<>>
                    ELSE <<Printed("stdout", "unparseable"),
                           Printed("stdout", "contents_header"),
                           Printed("stdout", "contents")>>)]_vars

\* C5 witness: a non-strict, non-silent run has returned after dumping a
\* truncated report.
C5_Witness ==
    /\ pc = "returned"
    /\ ~args.opts.can_fail_build
    /\ result_file.content = BrokenReport
    /\ Parsed
    /\ HasToken(out, Printed("stdout", "contents"))

\* C6: in strict mode, once a report of at least 10 bytes has failed to parse,
\* the run cannot return and cannot reach the normalization or the report of
\* the issue count; if it has ended, it has raised the parse failure.
C6_ParseErrorStrict ==
    (args.opts.can_fail_build /\ Parsed /\ ParseFails) =>
        /\ pc \in {"traceback", "parse", "raised"}
        /\ ~HasToken(trace, "_ProcessResultFile")
        /\ ~HasToken(out, Printed("stderr", "msg"))
        /\ exc \in {"ExpatError", "IndexError"}
        /\ exc = ParseAndShowResultFile(result_file.content, args.opts.silent).error

\* C6 witness: a strict run has ended with the parse failure of a truncated
\* report.
C6_Witness ==
    /\ pc = "raised"
    /\ args.opts.can_fail_build
    /\ exc = "ExpatError"
    /\ result_file.content = BrokenReport

\* C7: a run that has ended after parsing a report that parses has normalized
\* the result file, and has raised 'Lint failed.' under can_fail_build and
\* returned without an exception otherwise; before its end such a run has
\* raised nothing but the tool's error being handled.
C7_IssuesFound ==
    (Parsed /\ ~ParseFails) =>
        /\ Ended => /\ HasToken(trace, "_ProcessResultFile")
                    /\ num_issues >= 0
                    /\ IF args.opts.can_fail_build
                       THEN pc = "raised" /\ exc = "Lint failed."
                       ELSE pc = "returned" /\ exc = "none"
        /\ ~Ended => exc = "CalledProcessError"
        /\ pc = "report" => HasToken(trace, "_ProcessResultFile")

\* C7 witness: a non-strict run has returned after normalizing a report of two
\* issues.
C7_Witness ==
    /\ pc = "returned"
    /\ ~args.opts.can_fail_build
    /\ num_issues = 2
    /\ HasToken(trace, "_ProcessResultFile")

Declared == args.sources

ChangedIndexes ==
    {k \in 1..Len(Declared) : Declared[k] \in IterChangedPaths(changes)}

\* every source of `list` is linked, in list order, and nothing else is
AllStaged(list) ==
    /\ Len(placed) = Len(list)
    /\ \A k \in 1..Len(list) : LinkOf(list[k]) \in links[placed[k]]
    /\ LinkCount(links) = Len(list)

\* C8: once the narrowing step has run, the source list differs from the
\* declared one only if resource_dir is unset and AddedOrModifiedOnly() holds;
\* so with resource_dir set, or with a removal in the change set, the list is
\* the declared one, and it is the list staged when the tool is invoked.
C8_NoNarrowing ==
    pc # "start" =>
        /\ sources # Declared =>
              args.opts.resource_dir = None /\ AddedOrModifiedOnly(changes)
        /\ (args.opts.resource_dir # None \/ changes.removed # {}) =>
              /\ sources = Declared
              /\ pc = "invoke" => AllStaged(Declared)

\* C8 witness: with resource_dir set and one of three declared sources
\* changed, all three are staged when the tool is invoked.
C8_Witness ==
    /\ pc = "invoke"
    /\ args.opts.resource_dir # None
    /\ changes.removed = {}
    /\ Len(Declared) = 3
    /\ Cardinality(ChangedIndexes) = 1
    /\ Len(placed) = 3

\* C9: with resource_dir unset and additions/modifications only, the source
\* list after the narrowing step is the declared sources that are changed
\* paths, each kept once per occurrence and in the declared order, and these
\* are the sources staged when the tool is invoked.
C9_NarrowingResult ==
    (pc # "start" /\ args.opts.resource_dir = None /\ AddedOrModifiedOnly(changes)) =>
        /\ Len(sources) = Cardinality(ChangedIndexes)
        /\ \A k \in ChangedIndexes :
              sources[Cardinality({j \in ChangedIndexes : j <= k})] = Declared[k]
        /\ pc = "invoke" =>
              /\ AllStaged(sources)
              /\ \A d \in 1..Len(links) : \A e \in links[d] :
                    \E q \in IterChangedPaths(changes) :
                        /\ e.target = AbsPath(q)
                        /\ \E k \in 1..Len(Declared) : Declared[k] = q

\* C9 witness: of three declared sources two are changed, the tool binary is
\* changed too, and exactly the two are staged when the tool is invoked.
C9_Witness ==
    /\ pc = "invoke"
    /\ args.opts.resource_dir = None
    /\ AddedOrModifiedOnly(changes)
    /\ LintPath \in IterChangedPaths(changes)
    /\ Len(Declared) = 3
    /\ Len(sources) = 2
    /\ Len(placed) = 2

\* C10: once the run has ended, by a return or by an exception, the staging
\* tree does not exist.
C10_Cleanup ==
    Ended => ~temp_dir /\ links = <<>>

\* C10 witness: a run has ended with a filesystem error raised in the staging
\* loop after a first source was linked.
C10_Witness ==
    /\ pc = "raised"
    /\ exc = "OSError"
    /\ Len(placed) >= 1
    /\ HasToken(trace, "TempDir")
    /\ ~temp_dir

\* C11: when the tool is invoked no file exists at result_path, and any result
\* file seen after the invocation was written by it; so with an old result
\* file removed and the tool failing without writing one, the handler finds no
\* file (the case of C3) and cannot take the old file for a report.
C11_NoStaleResult ==
    /\ pc = "invoke" => ~result_file.exists
    /\ (Invoked /\ result_file.exists) => result_file.mtime = Now
    /\ (pc = "except" /\ ~result_file.exists) => ~Parsed
    /\ (Ended /\ Invoked /\ ~result_file.exists /\ exc # "none") =>
          /\ pc = "raised"
          /\ exc = "CalledProcessError"
          /\ ~Parsed
          /\ out = <<>>

\* C11 witness: an old result file was removed, the tool failed without
\* writing one, and the run has ended with the tool's error.
C11_Witness ==
    /\ HasToken(trace, "os.remove")
    /\ pc = "raised"
    /\ exc = "CalledProcessError"
    /\ ~result_file.exists

RelProductDir == RelativizePath(args.opts.product_dir)

Occurrences(s, pat) ==
    {k \in 1..(Len(s) - Len(pat) + 1) : SubSeq(s, k, k + Len(pat) - 1) = pat}

\* this run wrote the processed config
ConfigWritten == processed_config_file.exists /\ processed_config_file.mtime = Now

\* where the pre-pass put the product directory: one copy per placeholder
SubstitutedAt ==
    LET holes == Occurrences(config_file.content, PRODUCT_DIR)
    IN  {k + Cardinality({j \in holes : j < k}) * (Len(RelProductDir) - Len(PRODUCT_DIR)) :
            k \in holes}

\* the post-pass substitution of _ProcessResultFile applied to the processed config
RoundTrip == NormalizedResult(args.opts, processed_config_file).content

\* C12, as stated: for a product directory without the placeholder token, the
\* post-pass substitution applied to the output of the pre-pass gives back the
\* config content.
C12_Original ==
    (ConfigWritten /\ Occurrences(RelProductDir, PRODUCT_DIR) = {}) =>
        RoundTrip = config_file.content

\* C12, amended: the round trip gives back the config content provided the
\* product directory does not contain the placeholder token and the substituted
\* content contains the product directory only where the pre-pass put it.
C12_RoundTrip ==
    (/\ ConfigWritten
     /\ Occurrences(RelProductDir, PRODUCT_DIR) = {}
     /\ Occurrences(processed_config_file.content, RelProductDir) = SubstitutedAt) =>
        RoundTrip = config_file.content

\* C12 witness: a config with two placeholders around another token was
\* substituted with a product directory of two components, and the round trip
\* gives it back.
C12_Witness ==
    /\ ConfigWritten
    /\ config_file.content = <<"PRODUCT_DIR", "x", "PRODUCT_DIR">>
    /\ RelProductDir = <<"out", "out">>
    /\ Occurrences(processed_config_file.content, RelProductDir) = SubstitutedAt
    /\ RoundTrip = config_file.content

Normalized == HasToken(trace, "_ProcessResultFile")

\* C13, as stated: whenever a run that invoked the tool has ended with a
\* result file present, the file contains no occurrence of the relativized
\* product directory.
C13_Original ==
    (Ended /\ Invoked /\ result_file.exists) =>
        Occurrences(result_file.content, RelProductDir) = {}

\* C13, amended: the normalization runs only after the tool exited nonzero and
\* its report of at least 10 bytes was parsed; a run that has ended after it
\* leaves a result file without an occurrence of the relativized product
\* directory, and a run that has ended without it (exit code zero, near-empty
\* file, unparseable report) leaves the file as the tool wrote it.
C13_NormalizedReport ==
    /\ Normalized =>
          /\ Parsed
          /\ result_file.exists
          /\ GetSize(result_file.content) >= 10
    /\ (Ended /\ Normalized) =>
          /\ Occurrences(result_file.content, RelProductDir) = {}
          /\ ~ParseFails
    /\ (Ended /\ Invoked /\ result_file.exists /\ ~Normalized) =>
          /\ result_file.content \in ToolReports
          /\ \/ exc \in {"none", "ExpatError", "IndexError"}
             \/ exc = "CalledProcessError" /\ GetSize(result_file.content) < 10

\* C13 witness: a run has ended after normalizing a report whose issue lies
\* below the product directory.
C13_Witness ==
    /\ Ended
    /\ Normalized
    /\ result_file.content =
          <<"<issues>", "<issue", "file=", "PRODUCT_DIR", "gen", "F.java", "line=",
            "/>", "</issues>">>

Count(s, t) == Cardinality({k \in 1..Len(s) : s[k] = t})

Before(s, t, k) == \E j \in 1..(k - 1) : s[j] = t

\* C15, as stated: the config pre-pass runs only once every source is linked,
\* so a run that a filesystem error ended in the staging loop has not written
\* the processed config.
C15_Original ==
    /\ HasToken(trace, "_ProcessConfigFile") => Len(placed) = Len(sources)
    /\ (pc = "raised" /\ exc = "OSError") => ~ConfigWritten

\* C15, amended: the phases are ConfigPrep, Staging, Invoking in this order:
\* the pre-pass runs first inside the TempDir block, before any source is
\* linked, and the tool is invoked only once every source is linked and never
\* more than once; no source is linked after the invocation.
C15_PhaseOrder ==
    /\ Count(trace, "_ProcessConfigFile") <= 1
    /\ Count(trace, "CheckOutput") <= 1
    /\ pc \notin {"start", "with", "config"} =>
          /\ Len(trace) >= 2
          /\ trace[1] = "TempDir"
          /\ trace[2] = "_ProcessConfigFile"
    /\ \A k \in 1..Len(trace) :
          /\ trace[k] = "symlink" =>
                /\ Before(trace, "_ProcessConfigFile", k)
                /\ ~Before(trace, "CheckOutput", k)
          /\ trace[k] = "CheckOutput" =>
                /\ Before(trace, "_ProcessConfigFile", k)
                /\ Count(SubSeq(trace, 1, k), "symlink") = Len(sources)
    /\ Count(trace, "symlink") = Len(placed)

\* C15 witness: a run that a filesystem error ended in the staging loop,
\* after a first source was linked, has written the processed config.
C15_Witness ==
    /\ pc = "raised"
    /\ exc = "OSError"
    /\ Len(placed) >= 1
    /\ ConfigWritten
    /\ ~Invoked

RenderedIssues ==
    Cardinality({k \in 1..Len(out) :
                    out[k].kind \in {"issue_with_line", "issue_without_line"}})

\* C16: in one run the report is parsed at most once, and a non-silent run
\* that has counted the issues has rendered each of them once.
C16_SingleParse ==
    /\ Count(trace, "_ParseAndShowResultFile") <= 1
    /\ (~args.opts.silent /\ num_issues >= 0) => RenderedIssues = num_issues

\* sources among the first n that have the base name of the k-th
SameBase(k, n) == {j \in 1..n : BaseName(sources[j]) = BaseName(sources[k])}

\* C17: while the staging tree exists, the k-th source lies in the directory
\* numbered by the count of earlier sources of its base name (the first free
\* one), the directories are named 0, 1, ... in creation order, and there are
\* as many as the largest number of processed sources sharing a base name.
C17_FirstFit ==
    (temp_dir /\ Running) =>
        /\ \A k \in 1..Len(placed) :
              /\ placed[k] = Cardinality(SameBase(k, k - 1)) + 1
              /\ LinkOf(sources[k]) \in links[placed[k]]
        /\ \A d \in 1..Len(src_dirs) : src_dirs[d] = Append(TempPath, ToString(d - 1))
        /\ Len(links) = Len(src_dirs)
        /\ IF placed = <<>> THEN src_dirs = <<>>
           ELSE /\ \E k \in 1..Len(placed) :
                      Len(src_dirs) = Cardinality(SameBase(k, Len(placed)))
                /\ \A k \in 1..Len(placed) :
                      Cardinality(SameBase(k, Len(placed))) <= Len(src_dirs)

\* C17 witness: of the sources a/x, b/x, a/y the third is linked into the
\* first directory, next to a/x, and two directories exist.
C17_Witness ==
    /\ temp_dir
    /\ sources = <<<<"a", "x.java">>, <<"b", "x.java">>, <<"a", "y.java">>>>
    /\ placed = <<1, 2, 1>>
    /\ Len(src_dirs) = 2

SourcesAt == {k \in 1..Len(cmd) : cmd[k] = Flag("--sources")}

OptionFlags == {Flag("--classpath"), Flag("--config"), Flag("--resources")}

ManifestDir ==
    RelativizePath(SubSeq(args.opts.manifest_path, 1, Len(args.opts.manifest_path) - 1))

\* C18: when the tool is invoked, the command holds one '--sources <dir>' pair
\* per staging directory, in creation order and with distinct directories,
\* each directory holds a link, the pairs come after the --classpath, --config
\* and --resources flags, and the manifest's parent directory, when a manifest
\* is given, is the last element.
C18_SourceRoots ==
    pc = "invoke" =>
        /\ Cardinality(SourcesAt) = Len(src_dirs)
        /\ \A k \in SourcesAt :
              /\ k < Len(cmd)
              /\ k + 1 \notin SourcesAt
              /\ cmd[k + 1] =
                    RelativizePath(src_dirs[Cardinality({j \in SourcesAt : j <= k})])
        /\ \A d, e \in 1..Len(src_dirs) :
              d # e => RelativizePath(src_dirs[d]) # RelativizePath(src_dirs[e])
        /\ Len(links) = Len(src_dirs)
        /\ \A d \in 1..Len(links) : links[d] # {}
        /\ \A k \in 1..Len(cmd) :
              cmd[k] \in OptionFlags => \A j \in SourcesAt : k < j
        /\ args.opts.manifest_path # None =>
              /\ cmd[Len(cmd)] = ManifestDir
              /\ \A j \in SourcesAt : j + 1 < Len(cmd)

\* C18 witness: the tool is invoked with three staging directories, a jar, a
\* config, a resource directory and a manifest.
C18_Witness ==
    /\ pc = "invoke"
    /\ Len(src_dirs) = 3
    /\ args.opts.jar_path # None
    /\ args.opts.processed_config_path # None
    /\ args.opts.resource_dir # None
    /\ args.opts.manifest_path # None
    /\ cmd[Len(cmd)] = <<"app">>

\* both paths are given and the processed config is missing or older
PrePassDue ==
    /\ args.opts.config_path # None
    /\ args.opts.processed_config_path # None
    /\ \/ ~processed_config_file.exists
       \/ processed_config_file.mtime < config_file.mtime

\* C19: the step of _ProcessConfigFile writes the processed config if and only
\* if both paths are given and the processed config is stale, the content
\* written being the config content with each 'PRODUCT_DIR' replaced by the
\* relativized product directory; otherwise the processed config is left as
\* it is; and no step of the run changes the config file.
C19_ConfigPrePass ==
    [][/\ config_file' = config_file
       /\ pc # "config" => processed_config_file' = processed_config_file
       /\ (pc = "config" /\ PrePassDue) =>
             /\ processed_config_file'.exists
             /\ processed_config_file'.mtime = Now
             /\ processed_config_file'.content =
                   Replace(config_file.content, PRODUCT_DIR, RelProductDir)
             /\ Len(processed_config_file'.content) =
                   Len(config_file.content)
                   + Count(config_file.content, "PRODUCT_DIR") * (Len(RelProductDir) - 1)
       /\ (pc = "config" /\ ~PrePassDue) =>
             processed_config_file' = processed_config_file]_vars

\* C19 witness: a processed config newer than the config was left as it was by
\* the pre-pass, the config holding a placeholder.
C19_Witness ==
    /\ pc = "cmd"
    /\ HasToken(config_file.content, "PRODUCT_DIR")
    /\ processed_config_file = File(<<"old">>, 2)

=============================================================================
